---- MODULE Spec2Model ----
(***************************************************************************)
(* Model of mininet/topology.py: createTopology() is a straight-line       *)
(* sequence of Mininet API calls.  The script's statements are kept as a   *)
(* table (Program) in source order; pc is the index of the next statement. *)
(* The Mininet library and the OpenFlow controller are the environment:    *)
(* switches obtain or lose controller sessions on their own, a call may    *)
(* raise, pingAll may lose any number of probes, and the operator types    *)
(* any number of CLI commands.                                             *)
(***************************************************************************)
EXTENDS Integers, Sequences, FiniteSets, TLC

\* ---------------------------------------------------------------- bounds
\* Largest value the waitConnected tick counter is tracked to.
MaxWaitTicks == 2
\* Largest number of commands the operator types at the mininet> prompt.
MaxCliCommands == 2

\* ------------------------------------------------------- the environment
\* Values of os.environ the script may be started with: ONOS_IP unset, or
\* set to any string (the empty string and a host name included).
Environs ==
    { [k \in {} |-> ""] } \cup
    { [ONOS_IP |-> v] : v \in {"", "192.168.1.50", "127.0.0.1", "onos.local"} }

\* dict.get(key, default)
EnvironGetOr(e, key, default) == IF key \in DOMAIN e /\ e[key] # "" THEN e[key] ELSE default
EnvironGet(e, key, default) == IF key \in DOMAIN e THEN e[key] ELSE default

\* --------------------------------------------------------- the statements
Prologue ==
    << [op |-> "environ.get", key |-> "ONOS_IP", default |-> "127.0.0.1"],
       [op |-> "Mininet"],
       [op |-> "addController", name |-> "c0", port |-> 6653] >>

SwitchStmts ==
    << [op |-> "addSwitch", name |-> "s1", protocols |-> "OpenFlow13"],
       [op |-> "addSwitch", name |-> "s2", protocols |-> "OpenFlow13"],
       [op |-> "addSwitch", name |-> "s3", protocols |-> "OpenFlow13"],
       [op |-> "addSwitch", name |-> "s4", protocols |-> "OpenFlow13"],
       [op |-> "addSwitch", name |-> "s5", protocols |-> "OpenFlow13"] >>

HostStmtsDupIp ==
    << [op |-> "addHost", name |-> "h1", ip |-> "10.0.0.1/24", mac |-> "00:00:00:00:00:01"],
       [op |-> "addHost", name |-> "h2", ip |-> "10.0.0.2/24", mac |-> "00:00:00:00:00:02"],
       [op |-> "addHost", name |-> "h3", ip |-> "10.0.0.3/24", mac |-> "00:00:00:00:00:03"],
       [op |-> "addHost", name |-> "h4", ip |-> "10.0.0.4/24", mac |-> "00:00:00:00:00:04"],
       [op |-> "addHost", name |-> "h5", ip |-> "10.0.0.4/24", mac |-> "00:00:00:00:00:05"] >>
HostStmts ==
    << [op |-> "addHost", name |-> "h1", ip |-> "10.0.0.1/24", mac |-> "00:00:00:00:00:01"],
       [op |-> "addHost", name |-> "h2", ip |-> "10.0.0.2/24", mac |-> "00:00:00:00:00:02"],
       [op |-> "addHost", name |-> "h3", ip |-> "10.0.0.3/24", mac |-> "00:00:00:00:00:03"],
       [op |-> "addHost", name |-> "h4", ip |-> "10.0.0.4/24", mac |-> "00:00:00:00:00:04"],
       [op |-> "addHost", name |-> "h5", ip |-> "10.0.0.5/24", mac |-> "00:00:00:00:00:05"] >>

HostLinkStmtsSlowH3 ==
    << [op |-> "addLink", node1 |-> "h1", node2 |-> "s1", bw |-> 100, delay |-> "5ms"],
       [op |-> "addLink", node1 |-> "h2", node2 |-> "s2", bw |-> 100, delay |-> "5ms"],
       [op |-> "addLink", node1 |-> "h3", node2 |-> "s3", bw |-> 100, delay |-> "10ms"],
       [op |-> "addLink", node1 |-> "h4", node2 |-> "s4", bw |-> 100, delay |-> "5ms"],
       [op |-> "addLink", node1 |-> "h5", node2 |-> "s5", bw |-> 100, delay |-> "5ms"] >>
HostLinkStmts ==
    << [op |-> "addLink", node1 |-> "h1", node2 |-> "s1", bw |-> 100, delay |-> "5ms"],
       [op |-> "addLink", node1 |-> "h2", node2 |-> "s2", bw |-> 100, delay |-> "5ms"],
       [op |-> "addLink", node1 |-> "h3", node2 |-> "s3", bw |-> 100, delay |-> "5ms"],
       [op |-> "addLink", node1 |-> "h4", node2 |-> "s4", bw |-> 100, delay |-> "5ms"],
       [op |-> "addLink", node1 |-> "h5", node2 |-> "s5", bw |-> 100, delay |-> "5ms"] >>

MeshLinkStmts ==
    << [op |-> "addLink", node1 |-> "s1", node2 |-> "s2", bw |-> 100, delay |-> "10ms"],
       [op |-> "addLink", node1 |-> "s1", node2 |-> "s3", bw |-> 100, delay |-> "10ms"],
       [op |-> "addLink", node1 |-> "s1", node2 |-> "s4", bw |-> 100, delay |-> "10ms"],
       [op |-> "addLink", node1 |-> "s2", node2 |-> "s3", bw |-> 100, delay |-> "10ms"],
       [op |-> "addLink", node1 |-> "s2", node2 |-> "s4", bw |-> 100, delay |-> "10ms"] >>

LowerLinkStmtsDup ==
    << [op |-> "addLink", node1 |-> "s3", node2 |-> "s4", bw |-> 100, delay |-> "10ms"],
       [op |-> "addLink", node1 |-> "s4", node2 |-> "s3", bw |-> 100, delay |-> "10ms"] >>
LowerLinkStmtsS4 ==
    << [op |-> "addLink", node1 |-> "s3", node2 |-> "s4", bw |-> 100, delay |-> "10ms"],
       [op |-> "addLink", node1 |-> "s4", node2 |-> "s5", bw |-> 100, delay |-> "10ms"] >>
LowerLinkStmtsOne ==
    << [op |-> "addLink", node1 |-> "s3", node2 |-> "s5", bw |-> 100, delay |-> "10ms"] >>
LowerLinkStmts ==
    << [op |-> "addLink", node1 |-> "s3", node2 |-> "s4", bw |-> 100, delay |-> "10ms"],
       [op |-> "addLink", node1 |-> "s3", node2 |-> "s5", bw |-> 100, delay |-> "10ms"] >>

\* net.waitConnected() is called with no argument, so the library's default
\* timeout=None applies.  An absent timeout is the empty set, a timeout of t
\* ticks is {t}.
WaitTimeoutBounded == {MaxWaitTicks}
WaitTimeout == {}

EpiloguePingFirst ==
    << [op |-> "start"],
       [op |-> "pingAll"],
       [op |-> "waitConnected", timeout |-> WaitTimeout],
       [op |-> "CLI"],
       [op |-> "stop"] >>
Epilogue ==
    << [op |-> "start"],
       [op |-> "waitConnected", timeout |-> WaitTimeout],
       [op |-> "pingAll"],
       [op |-> "CLI"],
       [op |-> "stop"] >>

\* createTopology(), statement by statement.
Program ==
    Prologue \o SwitchStmts \o HostStmts \o HostLinkStmts \o MeshLinkStmts
             \o LowerLinkStmts \o Epilogue

\* The statement after pingAll: its return value (the loss) is discarded.
AfterPingAllChecked(p, loss) == IF loss > 0 THEN p + 2 ELSE p + 1
AfterPingAll(p, loss) == p + 1

\* An exception leaves createTopology() through no try/except/finally: the
\* network is left as it was.
UnwindWithFinally(ns, st) ==
    IF ns = "started" THEN [netState |-> "stopped", stops |-> st + 1]
                      ELSE [netState |-> ns, stops |-> st]
Unwind(ns, st) == [netState |-> ns, stops |-> st]

\* ----------------------------------------------------------------- state
VARIABLES
    environ,      \* os.environ of the process
    reachable,    \* whether a controller answers at the resolved address
    pc,           \* index in Program of the next statement
    inCall,       \* the statement at pc has been entered and is blocking
    failed,       \* an uncaught exception or interrupt ended the script
    onos_ip,      \* the local variable onos_ip
    netState,     \* "none", "built", "started", "stopped"
    controllers,  \* net.controllers
    switches,     \* net.switches
    hosts,        \* net.hosts
    links,        \* net.links
    connected,    \* switches that currently hold a controller session
    sessions,     \* switches that have ever held a controller session
    remaining,    \* waitConnected: switches not yet seen connected
    time,         \* waitConnected: ticks slept
    pingResults,  \* the values pingAll returned (lost probes)
    cliCmds,      \* commands typed at the prompt
    stops,        \* completed net.stop() calls
    trace         \* the calls made so far, in order

vars == << environ, reachable, pc, inCall, failed, onos_ip, netState,
           controllers, switches, hosts, links, connected, sessions,
           remaining, time, pingResults, cliCmds, stops, trace >>

Unbound == "<unbound>"

Init ==
    /\ environ \in Environs
    /\ reachable \in BOOLEAN
    /\ pc = 1
    /\ inCall = FALSE
    /\ failed = FALSE
    /\ onos_ip = Unbound
    /\ netState = "none"
    /\ controllers = << >>
    /\ switches = << >>
    /\ hosts = << >>
    /\ links = << >>
    /\ connected = {}
    /\ sessions = {}
    /\ remaining = {}
    /\ time = 0
    /\ pingResults = << >>
    /\ cliCmds = 0
    /\ stops = 0
    /\ trace = << >>

Running == ~failed /\ pc \in 1..Len(Program)
At(o) == Running /\ Program[pc].op = o
Names(seq) == { seq[i].name : i \in 1..Len(seq) }

netVars == << netState, controllers, switches, hosts, links, stops >>
envVars == << environ, reachable, connected, sessions >>
waitVars == << remaining, time >>

\* ---------------------------------------------------------------- actions
\* onos_ip = os.environ.get('ONOS_IP', '127.0.0.1')
GetOnosIp ==
    /\ At("environ.get")
    /\ onos_ip' = EnvironGet(environ, Program[pc].key, Program[pc].default)
    /\ pc' = pc + 1
    /\ trace' = Append(trace, "environ.get")
    /\ UNCHANGED << inCall, failed, netVars, envVars, waitVars, pingResults, cliCmds >>

\* net = Mininet(controller=None, switch=OVSKernelSwitch, link=TCLink, ...)
NewMininet ==
    /\ At("Mininet")
    /\ netState' = "built"
    /\ pc' = pc + 1
    /\ trace' = Append(trace, "Mininet")
    /\ UNCHANGED << inCall, failed, onos_ip, controllers, switches, hosts, links,
                    stops, envVars, waitVars, pingResults, cliCmds >>

\* net.addController('c0', controller=RemoteController, ip=onos_ip, port=6653)
AddController ==
    /\ At("addController")
    /\ controllers' = Append(controllers,
          [name |-> Program[pc].name, ip |-> onos_ip, port |-> Program[pc].port])
    /\ pc' = pc + 1
    /\ trace' = Append(trace, "addController")
    /\ UNCHANGED << inCall, failed, onos_ip, netState, switches, hosts, links,
                    stops, envVars, waitVars, pingResults, cliCmds >>

\* sN = net.addSwitch('sN', cls=OVSKernelSwitch, protocols='OpenFlow13')
AddSwitch ==
    /\ At("addSwitch")
    /\ switches' = Append(switches,
          [name |-> Program[pc].name, protocols |-> Program[pc].protocols])
    /\ pc' = pc + 1
    /\ trace' = Append(trace, "addSwitch")
    /\ UNCHANGED << inCall, failed, onos_ip, netState, controllers, hosts, links,
                    stops, envVars, waitVars, pingResults, cliCmds >>

\* hN = net.addHost('hN', ip='10.0.0.N/24', mac='00:00:00:00:00:0N')
AddHost ==
    /\ At("addHost")
    /\ hosts' = Append(hosts,
          [name |-> Program[pc].name, ip |-> Program[pc].ip, mac |-> Program[pc].mac])
    /\ pc' = pc + 1
    /\ trace' = Append(trace, "addHost")
    /\ UNCHANGED << inCall, failed, onos_ip, netState, controllers, switches, links,
                    stops, envVars, waitVars, pingResults, cliCmds >>

\* net.addLink(a, b, cls=TCLink, bw=100, delay='..ms')
AddLink ==
    /\ At("addLink")
    /\ links' = Append(links,
          [node1 |-> Program[pc].node1, node2 |-> Program[pc].node2,
           bw |-> Program[pc].bw, delay |-> Program[pc].delay])
    /\ pc' = pc + 1
    /\ trace' = Append(trace, "addLink")
    /\ UNCHANGED << inCall, failed, onos_ip, netState, controllers, switches, hosts,
                    stops, envVars, waitVars, pingResults, cliCmds >>

\* net.start()
Start ==
    /\ At("start")
    /\ netState' = "started"
    /\ pc' = pc + 1
    /\ trace' = Append(trace, "start")
    /\ UNCHANGED << inCall, failed, onos_ip, controllers, switches, hosts, links,
                    stops, envVars, waitVars, pingResults, cliCmds >>

\* net.waitConnected(): entry; remaining = list(self.switches), time = 0
WaitEnter ==
    /\ At("waitConnected")
    /\ ~inCall
    /\ inCall' = TRUE
    /\ remaining' = Names(switches)
    /\ time' = 0
    /\ trace' = Append(trace, "waitConnected")
    /\ UNCHANGED << pc, failed, onos_ip, netVars, envVars, pingResults, cliCmds >>

\* net.waitConnected(): one iteration of its polling loop.  Mininet drops
\* from `remaining` every switch it sees connected, returns when none is
\* left, gives up only when a timeout was passed and has elapsed, and
\* otherwise sleeps one tick and polls again.
WaitPoll ==
    /\ At("waitConnected")
    /\ inCall
    /\ LET left == remaining \ connected
           timeout == Program[pc].timeout
       IN  /\ remaining' = left
           /\ IF left = {} \/ (\E t \in timeout : time >= t)
              THEN /\ pc' = pc + 1
                   /\ inCall' = FALSE
                   /\ time' = time
              ELSE /\ pc' = pc
                   /\ inCall' = TRUE
                   /\ time' = IF time < MaxWaitTicks THEN time + 1 ELSE time
    /\ UNCHANGED << failed, onos_ip, netVars, envVars, pingResults, cliCmds, trace >>

\* net.pingAll(): any number of the host-pair probes may be lost
PingAll ==
    /\ At("pingAll")
    /\ \E lost \in 0..(Len(hosts) * (Len(hosts) - 1)) :
          /\ pingResults' = Append(pingResults, lost)
          /\ pc' = AfterPingAll(pc, lost)
    /\ trace' = Append(trace, "pingAll")
    /\ UNCHANGED << inCall, failed, onos_ip, netVars, envVars, waitVars, cliCmds >>

\* CLI(net): the prompt opens
CliOpen ==
    /\ At("CLI")
    /\ ~inCall
    /\ inCall' = TRUE
    /\ trace' = Append(trace, "CLI")
    /\ UNCHANGED << pc, failed, onos_ip, netVars, envVars, waitVars, pingResults, cliCmds >>

\* CLI(net): the operator runs a command
CliCommand ==
    /\ At("CLI")
    /\ inCall
    /\ cliCmds < MaxCliCommands
    /\ cliCmds' = cliCmds + 1
    /\ UNCHANGED << pc, inCall, failed, onos_ip, netVars, envVars, waitVars,
                    pingResults, trace >>

\* CLI(net): the operator leaves the prompt
CliExit ==
    /\ At("CLI")
    /\ inCall
    /\ inCall' = FALSE
    /\ pc' = pc + 1
    /\ UNCHANGED << failed, onos_ip, netVars, envVars, waitVars, pingResults,
                    cliCmds, trace >>

\* net.stop()
Stop ==
    /\ At("stop")
    /\ netState' = "stopped"
    /\ stops' = stops + 1
    /\ connected' = {}
    /\ pc' = pc + 1
    /\ trace' = Append(trace, "stop")
    /\ UNCHANGED << inCall, failed, onos_ip, controllers, switches, hosts, links,
                    environ, reachable, sessions, waitVars, pingResults, cliCmds >>

\* The statement at pc raises, or the operator interrupts the process.
Fail ==
    /\ Running
    /\ failed' = TRUE
    /\ netState' = Unwind(netState, stops).netState
    /\ stops' = Unwind(netState, stops).stops
    /\ UNCHANGED << pc, inCall, onos_ip, controllers, switches, hosts, links,
                    envVars, waitVars, pingResults, cliCmds, trace >>

\* A started switch obtains a session with the controller.
SwitchConnects ==
    /\ Running
    /\ netState = "started"
    /\ reachable
    /\ \E s \in Names(switches) \ connected :
          /\ connected' = connected \cup {s}
          /\ sessions' = sessions \cup {s}
    /\ UNCHANGED << environ, reachable, pc, inCall, failed, onos_ip, netVars,
                    waitVars, pingResults, cliCmds, trace >>

\* A switch loses its session with the controller.
SwitchDisconnects ==
    /\ Running
    /\ netState = "started"
    /\ \E s \in connected : connected' = connected \ {s}
    /\ UNCHANGED << environ, reachable, sessions, pc, inCall, failed, onos_ip,
                    netVars, waitVars, pingResults, cliCmds, trace >>

Next ==
    \/ GetOnosIp
    \/ NewMininet
    \/ AddController
    \/ AddSwitch
    \/ AddHost
    \/ AddLink
    \/ Start
    \/ WaitEnter
    \/ WaitPoll
    \/ PingAll
    \/ CliOpen
    \/ CliCommand
    \/ CliExit
    \/ Stop
    \/ Fail
    \/ SwitchConnects
    \/ SwitchDisconnects

Spec == Init /\ [][Next]_vars

\* ------------------------------------------------------------ vocabulary
Idx(o) == CHOOSE i \in 1..Len(Program) : Program[i].op = o
Finished == pc > Len(Program)
\* Every statement before net.start() has run.
PastBuild == pc >= Idx("start")
Rep(x, n) == [i \in 1..n |-> x]
InTrace(o) == \E i \in 1..Len(trace) : trace[i] = o
IsPrefix(s, t) == Len(s) <= Len(t) /\ \A i \in 1..Len(s) : s[i] = t[i]

Sw(n) == "s" \o ToString(n)
Hn(n) == "h" \o ToString(n)
SwitchNames == { Sw(n) : n \in 1..5 }
HostNames == { Hn(n) : n \in 1..5 }
Pair(l) == {l.node1, l.node2}
HostSwitchPairs == { {Hn(n), Sw(n)} : n \in 1..5 }
SwitchSwitchPairs ==
    { {"s1", "s2"}, {"s1", "s3"}, {"s1", "s4"}, {"s2", "s3"}, {"s2", "s4"},
      {"s3", "s4"}, {"s3", "s5"} }

\* ------------------------------------------------------------------- C1
\* C1 (as claimed): once every addLink call before net.start() has been
\* made, the network holds exactly 10 links.
C1_TenLinks == PastBuild => Len(links) = 10

\* C1 (amended): once every addLink call before net.start() has been made,
\* the network holds exactly 12 links (5 host-switch and 7 switch-switch),
\* and no run ever holds more.
C1_TwelveLinks ==
    /\ Len(links) <= 12
    /\ PastBuild =>
          /\ Len(links) = 12
          /\ Cardinality({ i \in 1..Len(trace) : trace[i] = "addLink" }) = 12
          /\ Cardinality({ i \in 1..12 : Pair(links[i]) \in HostSwitchPairs }) = 5
          /\ Cardinality({ i \in 1..12 : Pair(links[i]) \subseteq SwitchNames }) = 7

C1_Witness == netState = "started" /\ Len(links) = 12 /\ ~failed

\* ------------------------------------------------------------------- C2
\* C2: every link joins a host-switch pair (hN,sN), N in 1..5, with
\* bandwidth 100 and delay 5ms, or one of the seven listed switch-switch
\* pairs with bandwidth 100 and delay 10ms; once building is over every pair
\* of the reference table is present.
C2_LinkTable ==
    /\ \A i \in 1..Len(links) :
          \/ /\ Pair(links[i]) \in HostSwitchPairs
             /\ links[i].bw = 100
             /\ links[i].delay = "5ms"
          \/ /\ Pair(links[i]) \in SwitchSwitchPairs
             /\ links[i].bw = 100
             /\ links[i].delay = "10ms"
    /\ PastBuild =>
          { Pair(links[i]) : i \in 1..Len(links) } = HostSwitchPairs \cup SwitchSwitchPairs

C2_Witness ==
    /\ PastBuild
    /\ \E i \in 1..Len(links) : Pair(links[i]) = {"s3", "s5"} /\ links[i].delay = "10ms"
    /\ \E i \in 1..Len(links) : Pair(links[i]) = {"h5", "s5"} /\ links[i].delay = "5ms"

\* ------------------------------------------------------------------- C3
ExpectedOrder ==
    << "environ.get", "Mininet", "addController" >>
       \o Rep("addSwitch", 5) \o Rep("addHost", 5) \o Rep("addLink", 12)
       \o << "start", "waitConnected", "pingAll", "CLI", "stop" >>

\* C3: the calls made so far are always an initial part of the one fixed
\* order; nothing is added after start, pingAll runs only after
\* waitConnected has returned, the CLI opens only on a started network, and
\* stop runs once, after the CLI has returned, as the last call.
C3_LinearOrder ==
    /\ IsPrefix(trace, ExpectedOrder)
    /\ (Finished /\ ~failed) => trace = ExpectedOrder
    /\ netState \in {"started", "stopped"} =>
          Len(switches) = 5 /\ Len(hosts) = 5 /\ Len(links) = 12
    /\ InTrace("pingAll") => pc > Idx("waitConnected") /\ remaining = {}
    /\ InTrace("CLI") => InTrace("start") /\ netState \in {"started", "stopped"}
    /\ stops <= 1
    /\ stops = 1 => Finished /\ trace[Len(trace)] = "stop" /\ pc > Idx("CLI")
    /\ Len(pingResults) <= 1

C3_Witness == Finished /\ ~failed /\ trace = ExpectedOrder /\ stops = 1

\* ------------------------------------------------------------------- C4
\* C4: the script is past the wait step only if each of the 5 switches has
\* held a controller session and waitConnected has seen it; with the
\* controller unreachable no switch gets a session, the script never leaves
\* the wait step however long it polls, and the probe, the prompt and
\* net.stop() are never reached.
C4_WaitBlocks ==
    /\ pc > Idx("waitConnected") => sessions = SwitchNames /\ remaining = {}
    /\ (InTrace("pingAll") \/ InTrace("CLI") \/ InTrace("stop") \/ stops > 0)
          => sessions = SwitchNames
    /\ ~reachable =>
          /\ sessions = {}
          /\ pc <= Idx("waitConnected")
          /\ pingResults = << >>
          /\ ~InTrace("CLI")
          /\ stops = 0

C4_Witness ==
    /\ ~reachable
    /\ ~failed
    /\ pc = Idx("waitConnected")
    /\ inCall
    /\ time = MaxWaitTicks
    /\ remaining = SwitchNames

\* ------------------------------------------------------------------- C5
ResolvedAddress ==
    IF "ONOS_IP" \in DOMAIN environ THEN environ["ONOS_IP"] ELSE "127.0.0.1"

C5_Registered ==
    /\ Len(controllers) <= 1
    /\ pc > Idx("addController") => Len(controllers) = 1
    /\ \A i \in 1..Len(controllers) :
          /\ controllers[i].port = 6653
          /\ controllers[i].ip = ResolvedAddress
    /\ onos_ip \in {Unbound, ResolvedAddress}

\* C5: exactly one controller is registered, with port 6653 and with the IP
\* that ONOS_IP holds when set (unchanged, whatever the string) and
\* 127.0.0.1 when unset; once read the address, and once made the
\* registration, never change.
C5_Controller ==
    /\ []C5_Registered
    /\ [][ /\ onos_ip # Unbound => onos_ip' = onos_ip
           /\ controllers # << >> => controllers' = controllers ]_vars

C5_Witness ==
    /\ Finished
    /\ "ONOS_IP" \in DOMAIN environ
    /\ environ["ONOS_IP"] = ""
    /\ Len(controllers) = 1
    /\ controllers[1].ip = ""

\* ------------------------------------------------------------------- C6
\* C6: when net.start() is called, and from then on, the network has
\* exactly the switches s1..s5, all requesting OpenFlow13, and exactly the
\* hosts h1..h5, hN with IP 10.0.0.N/24 and MAC 00:00:00:00:00:0N; names,
\* IPs and MACs are pairwise distinct.
C6_Nodes ==
    PastBuild =>
       /\ Len(switches) = 5
       /\ Len(hosts) = 5
       /\ \A n \in 1..5 :
             /\ Cardinality({ i \in 1..5 : switches[i].name = Sw(n) }) = 1
             /\ Cardinality({ i \in 1..5 : hosts[i].name = Hn(n) }) = 1
             /\ \A i \in 1..5 : hosts[i].name = Hn(n) =>
                   /\ hosts[i].ip = "10.0.0." \o ToString(n) \o "/24"
                   /\ hosts[i].mac = "00:00:00:00:00:0" \o ToString(n)
       /\ \A i \in 1..5 : switches[i].protocols = "OpenFlow13"
       /\ Cardinality(Names(switches) \cup Names(hosts)) = 10
       /\ Cardinality({ hosts[i].ip : i \in 1..5 }) = 5
       /\ Cardinality({ hosts[i].mac : i \in 1..5 }) = 5

C6_Witness == At("start") /\ netState = "built" /\ Len(hosts) = 5 /\ Len(switches) = 5

\* ------------------------------------------------------------------- C7
C7_WellFormed ==
    /\ \A i \in 1..Len(links) :
          /\ links[i].node1 \in Names(switches) \cup Names(hosts)
          /\ links[i].node2 \in Names(switches) \cup Names(hosts)
          /\ links[i].node1 # links[i].node2
    /\ \A i, j \in 1..Len(links) : i # j => Pair(links[i]) # Pair(links[j])

\* C7: after every addLink both endpoints of every link are nodes created
\* before the link was added, no link joins a node to itself and no pair of
\* nodes is joined twice.
C7_Links ==
    /\ []C7_WellFormed
    /\ [][ links' # links =>
              /\ Len(links') = Len(links) + 1
              /\ Pair(links'[Len(links')]) \subseteq Names(switches) \cup Names(hosts)
              /\ switches' = switches
              /\ hosts' = hosts ]_vars

C7_Witness == Len(links) = 12 /\ netState = "built" /\ C7_WellFormed

\* ------------------------------------------------------------------- C8
\* C8: whatever pingAll returns, the next statement is the CLI; when the
\* prompt exits the next statement is net.stop(); a run that ends normally
\* has stopped the network once, whatever the probe lost.
C8_ProbeInformational ==
    /\ [][ Len(pingResults') > Len(pingResults) =>
              /\ ~failed'
              /\ pc' = Idx("CLI")
              /\ ~inCall' ]_vars
    /\ [][ (pc = Idx("CLI") /\ pc' # pc) => pc' = Idx("stop") /\ ~failed' ]_vars
    /\ []((Finished /\ ~failed) => (stops = 1 /\ InTrace("CLI") /\ Len(pingResults) = 1))

C8_Witness ==
    /\ Finished
    /\ ~failed
    /\ pingResults = << 20 >>
    /\ InTrace("CLI")
    /\ stops = 1

\* ------------------------------------------------------------------- C9
RECURSIVE Reach(_, _)
Reach(E, S) ==
    LET N == S \cup { m \in UNION E : \E e \in E : m \in e /\ e \cap S # {} }
    IN  IF N = S THEN S ELSE Reach(E, N)
Connected(E, U) == U = {} \/ U \subseteq Reach(E, {CHOOSE a \in U : TRUE})
EdgesExcept(I) == { Pair(links[i]) : i \in (1..Len(links)) \ I }
SwitchLinks == { i \in 1..Len(links) : Pair(links[i]) \subseteq SwitchNames }
UpperLower == {"s1", "s2", "s3", "s4"}

C9_Graph ==
    /\ Connected(EdgesExcept({}), SwitchNames \cup HostNames)
    /\ Cardinality(Names(switches) \cup Names(hosts)) = 10
    /\ \A i \in SwitchLinks : Pair(links[i]) \subseteq UpperLower =>
          /\ Connected(EdgesExcept({i}), UpperLower \cup {"h1", "h2", "h3", "h4"})
          /\ \A u \in {"s1", "s2"} : {"s3", "s4"} \subseteq Reach(EdgesExcept({i}), {u})
    /\ \A i \in SwitchLinks :
          ~Connected(EdgesExcept({i}), HostNames) <=> Pair(links[i]) = {"s3", "s5"}
    /\ \E i \in SwitchLinks :
          /\ Pair(links[i]) = {"s3", "s5"}
          /\ "h5" \notin Reach(EdgesExcept({i}), {"h1"})
          /\ Connected(EdgesExcept({i}), HostNames \ {"h5"})

\* C9: the graph handed to net.start(), which no later step changes, has 10
\* nodes and is connected; removing any one link among s1..s4 leaves s1..s4
\* and h1..h4 mutually connected; a switch-switch link whose removal
\* separates some host from the others exists, and it is (s3,s5) only, which
\* cuts off h5 alone.
C9_Redundancy ==
    /\ [](pc = Idx("start") => C9_Graph)
    /\ [][ PastBuild => (links' = links /\ switches' = switches /\ hosts' = hosts) ]_vars

C9_Witness ==
    /\ netState = "started"
    /\ Cardinality(SwitchLinks) = 7
    /\ \E i \in SwitchLinks : Pair(links[i]) = {"s3", "s5"}

\* ------------------------------------------------------------------ C10
\* C10: a failure ends the run where it happens: no statement runs
\* afterwards and nothing is retried; a failure after net.start() returned
\* and before net.stop() is called leaves the network started, with
\* net.stop() never called.
C10_FailureTerminates ==
    /\ []( (failed /\ pc > Idx("start") /\ pc < Idx("stop")) =>
              (netState = "started" /\ stops = 0 /\ ~InTrace("stop")) )
    /\ []( failed => (stops = 0 /\ pc <= Len(Program)) )
    /\ [][ failed => UNCHANGED vars ]_vars
    /\ [][ (failed' /\ ~failed) =>
              UNCHANGED << pc, trace, netState, stops, controllers, switches,
                           hosts, links, pingResults >> ]_vars

C10_Witness ==
    /\ failed
    /\ pc = Idx("CLI")
    /\ inCall
    /\ netState = "started"
    /\ stops = 0

TypeOK ==
    /\ pc \in 1..(Len(Program) + 1)
    /\ netState \in {"none", "built", "started", "stopped"}
    /\ connected \subseteq sessions
    /\ time \in 0..MaxWaitTicks
====
